---- MODULE Spec2Model ----
(***************************************************************************)
(* pyphase.discrete: automatic multiscale-based peak detection             *)
(* (ampd_peaks) and discrete relative phase (relative_phase).              *)
(*                                                                         *)
(* Arrays are records [shape, data] with the data in row-major order.      *)
(* A 1-D array of N samples is a sequence x with the code's 0-based index  *)
(* i held at x[i + 1]; every index that appears in a result (a peak, a     *)
(* global_min) is the code's 0-based index.                                *)
(*                                                                         *)
(* Real arithmetic is exact and kept in integers by a positive scaling:    *)
(*   - detrend returns the least-squares residual times N * Den > 0,       *)
(*   - the cells of the scalogram hold Res times their value, the random   *)
(*     sample r in [0, 1) being one of the Res levels 0/Res .. (Res-1)/Res,*)
(*   - a standard deviation is held as n^2 * (n - 1) times its square,     *)
(*     or as nan,                                                          *)
(*   - a relative phase is held as the fraction num / den of 2 * pi.       *)
(* Every comparison the code makes is unchanged by these scalings.         *)
(*                                                                         *)
(* np.random.sample is a nondeterministic choice (RandomBaseline).  The    *)
(* matrices drawn are those whose rows each hold one level; any of them is *)
(* a matrix the generator can return.                                      *)
(*                                                                         *)
(* SpecPeaks runs ampd_peaks alone, statement by statement, on every 0/1   *)
(* signal of 2 .. MaxN samples.  Spec runs relative_phase on pulse trains  *)
(* (period 2 .. MaxP, any phase), b being any pulse train or an amplified  *)
(* copy of a; ampd_peaks is then one step with all its outcomes.           *)
(* SpecTwice adds a caller that calls relative_phase a second time.        *)
(***************************************************************************)
EXTENDS Integers, Sequences, FiniteSets, TLC

\* Longest signal of the model.
MaxN == 11

\* Number of levels of one random sample in [0, 1).
Res == 2

\* discrete.py line 119: the constant offset of the baseline, r + a.
a == 1

\* Python's None, for an array, a time base or a result not given
None == << >>
\* a floating-point result: nan, or the (scaled) number val
NaN == [nan |-> TRUE, val |-> 0]
Float(v) == [nan |-> FALSE, val |-> v]

----------------------------------------------------------------------------
(* numpy helpers, as used by the code *)

RECURSIVE SumTo(_, _)
\* sum of f[1] .. f[n]
SumTo(f, n) == IF n = 0 THEN 0 ELSE f[n] + SumTo(f, n - 1)

\* ndarray.sum() of a 1-D array
Sum(x) == SumTo(x, Len(x))

\* np.squeeze: drop the axes of length one; row-major data is unchanged
squeeze(arr) ==
    [shape |-> SelectSeq(arr.shape, LAMBDA d : d # 1), data |-> arr.data]

\* np.roll(x, s) of a 1-D array: element i moves to (i + s) mod N
roll(x, s) ==
    LET N == Len(x) IN [j \in 1..N |-> x[((j - 1 - s) % N) + 1]]

\* np.diff of a 1-D array: x[1:] - x[:-1]
diff(x) == [j \in 1..(Len(x) - 1) |-> x[j + 1] - x[j]]

\* the Python slice x[:n]
Take(x, n) ==
    IF n >= 0
    THEN SubSeq(x, 1, IF n < Len(x) THEN n ELSE Len(x))
    ELSE SubSeq(x, 1, Len(x) + n)

\* min of a non-empty list of integers
Min(s) == CHOOSE m \in {s[j] : j \in 1..Len(s)} :
              \A j \in 1..Len(s) : m <= s[j]

\* a[:, c] of a 2-D array with shape (n, m)
Column(arr, c) ==
    LET n == arr.shape[1]
        m == arr.shape[2]
    IN [shape |-> <<n>>,
        data |-> [i \in 1..n |-> arr.data[(i - 1) * m + c + 1]]]

\* scipy.signal.detrend(x), type linear, times N * Den:
\* x - (fitted line), the line being the least-squares fit over i = 0..N-1
detrend(x) ==
    LET N == Len(x)
        Si == SumTo([j \in 1..N |-> j - 1], N)
        Sii == SumTo([j \in 1..N |-> (j - 1) * (j - 1)], N)
        Sx == Sum(x)
        Six == SumTo([j \in 1..N |-> (j - 1) * x[j]], N)
        Num == N * Six - Si * Sx
        Den == N * Sii - Si * Si
    IN [j \in 1..N |-> N * Den * x[j] - Den * Sx + Num * Si - N * Num * (j - 1)]

----------------------------------------------------------------------------
(* discrete.py *)

Ok(v) == [ok |-> TRUE, val |-> v]
Raise(e) == [ok |-> FALSE, err |-> e]

\* _validate_vector
_validate_vector(arr) ==
    LET data == squeeze(arr)
    IN IF Len(data.shape) > 1
       THEN Raise("ValueError")
       ELSE Ok(data.data)

\* L = int(np.ceil(N/2) - 1)
Scales(N) == (N + 1) \div 2 - 1

\* np.random.sample((L, N)) + a, times Res: the matrices the model draws.
\* Every cell of a row holds the same level; the rows are independent.
RandomBaseline(L, N) ==
    {[k \in 1..L |-> [i \in 1..N |-> Res * a + lv[k]]] :
        lv \in [1..L -> 0..(Res - 1)]}

\* elements_to_check[k - 1, i]: (shift + 1 <= data_ix) & (data_ix <= N - shift)
elements_to_check(N, k, i) == (k + 1 <= i) /\ (i <= N - k)

\* line 147, the index mask:
\* elements_to_check & (data > shifted_back) & (data > shifted_forward),
\* d the detrended data
LocalMaxima(d) ==
    LET N == Len(d)
        L == Scales(N)
        shifted_back == [k \in 1..L |-> roll(d, -k)]
        shifted_forward == [k \in 1..L |-> roll(d, k)]
    IN [k \in 1..L |-> [j \in 1..N |->
          /\ elements_to_check(N, k, j - 1)
          /\ d[j] > shifted_back[k][j]
          /\ d[j] > shifted_forward[k][j]]]

\* line 147, the assignment lms[mask] = 0, lms being the matrix of r + a
SetZero(base, mask) ==
    [k \in 1..Len(base) |-> [j \in 1..Len(base[k]) |->
          IF mask[k][j] THEN 0 ELSE base[k][j]]]

\* gamma = lms.sum(axis=1)
RowSums(lms) == [k \in 1..Len(lms) |-> Sum(lms[k])]

\* gamma.argmin(): the first index of the minimum; an empty gamma raises
argmin(gamma) ==
    IF Len(gamma) = 0
    THEN Raise("ValueError")
    ELSE Ok((CHOOSE k \in 1..Len(gamma) :
               /\ \A j \in 1..Len(gamma) : gamma[k] <= gamma[j]
               /\ \A j \in 1..(k - 1) : gamma[j] > gamma[k]) - 1)

\* std(ddof) of one column over n rows, as n^2 * (n - ddof) * std^2;
\* with n - ddof = 0 numpy divides 0 by 0 and yields nan
ColumnStd(col, ddof) ==
    LET n == Len(col)
        S == Sum(col)
    IN IF n - ddof <= 0
       THEN NaN
       ELSE Float(SumTo([k \in 1..n |-> (n * col[k] - S) * (n * col[k] - S)], n))

\* lms[:global_min + 1].std(axis=0, ddof=1)
ColumnStds(lms, global_min) ==
    LET N == Len(lms[1])
    IN [j \in 1..N |-> ColumnStd([k \in 1..(global_min + 1) |-> lms[k][j]], 1)]

RECURSIVE NonzeroFrom(_, _)
\* np.nonzero(stds == 0)[0], from 0-based index i on
NonzeroFrom(stds, i) ==
    IF i >= Len(stds)
    THEN << >>
    ELSE IF ~stds[i + 1].nan /\ stds[i + 1].val = 0
         THEN <<i>> \o NonzeroFrom(stds, i + 1)
         ELSE NonzeroFrom(stds, i + 1)

\* np.nonzero(stds == 0)[0]
ZeroStdIndices(stds) == NonzeroFrom(stds, 0)

\* ampd_peaks after _local_maxima_scalogram: lines 105-115
PeaksOf(lms) ==
    LET gm == argmin(RowSums(lms))
    IN IF ~gm.ok THEN gm
       ELSE Ok(ZeroStdIndices(ColumnStds(lms, gm.val)))

\* ampd_peaks(arr) with its random draw: the set of its possible outcomes
ampd_peaks(arr) ==
    LET v == _validate_vector(arr)
    IN IF ~v.ok THEN {v}
       ELSE LET d == detrend(v.val)
                mask == LocalMaxima(d)
            IN {PeaksOf(SetZero(base, mask)) :
                   base \in RandomBaseline(Scales(Len(d)), Len(d))}

----------------------------------------------------------------------------
(* relative_phase *)

\* _validate_vectors(a, b).  The model passes the two-argument form only
\* arrays with at most one axis longer than one, so the a.ndim > 1 branches
\* (_collapse, a principal-component projection by an external library)
\* are not entered.
_validate_vectors(arr_a, arr_b) ==
    IF arr_b = None
    THEN LET s == squeeze(arr_a)
         IN IF Len(s.shape) # 2 \/ s.shape[2] # 2
            THEN Raise("ValueError")
            ELSE Ok(<<squeeze(Column(s, 0)), squeeze(Column(s, 1))>>)
    ELSE Ok(<<squeeze(arr_a), squeeze(arr_b)>>)

\* np.arange(n)
arange(n) == [j \in 1..n |-> j - 1]

\* x[idx] for an index array idx
Index(x, idx) == [j \in 1..Len(idx) |-> x[idx[j] + 1]]

\* periods = np.diff(peaks[0])
Periods(pk) == diff(pk[1])

\* CropLength without the number of periods
CropLength_NoPeriods(pk) == Min(<<Len(pk[1]), Len(pk[2])>>)

\* length = min([peaks[0].shape[0], peaks[1].shape[0], periods.shape[0]])
CropLength(pk) == Min(<<Len(pk[1]), Len(pk[2]), Len(Periods(pk))>>)

\* PhaseOf with the difference taken as peaks[1] - peaks[0]
PhaseOf_Swapped(p0, p1, periods) ==
    [j \in 1..Len(periods) |-> [num |-> p1[j] - p0[j], den |-> periods[j]]]

\* 2 * np.pi * (peaks[0] - peaks[1]) / periods, as fractions of 2 * pi
PhaseOf(p0, p1, periods) ==
    [j \in 1..Len(periods) |-> [num |-> p0[j] - p1[j], den |-> periods[j]]]

\* lines 62-75 of relative_phase: crop, phase and the returned triple
Crop(pk, tt) ==
    LET length == CropLength(pk)
        p0 == Take(pk[1], length)
        p1 == Take(pk[2], length)
        periods == Take(Periods(pk), length)
    IN [t_a |-> Index(tt, p0),
        t_b |-> Index(tt, p1),
        rel_phase |-> PhaseOf(p0, p1, periods)]

----------------------------------------------------------------------------
(* inputs *)

\* largest period and largest amplitude of the pulse trains
MaxP == 4
MaxScale == 2

\* a pulse train of period P: amplitude c at the samples i = phi (mod P)
Pulse(N, P, phi, c) == [j \in 1..N |-> IF (j - 1 - phi) % P = 0 THEN c ELSE 0]

Waves == {w \in [P : 2..MaxP, phi : 0..(MaxP - 1)] : w.phi < w.P}

\* a 1-D array
Vec(x) == [shape |-> <<Len(x)>>, data |-> x]

\* np.vstack((x, y)): shape (2, N)
VStack(x, y) == [shape |-> <<2, Len(x)>>, data |-> x \o y]

\* np.vstack((x, y)).transpose(): shape (N, 2)
Columns(x, y) ==
    [shape |-> <<Len(x), 2>>,
     data |-> [m \in 1..(2 * Len(x)) |->
                 IF m % 2 = 1 THEN x[(m + 1) \div 2] ELSE y[m \div 2]]]

\* an explicit time base: sample i at time 10 * i + 5
Ticks(N) == [j \in 1..N |-> 10 * (j - 1) + 5]

VARIABLES
    pc,          \* position in the running function
    arg_a,       \* relative_phase: argument a
    arg_b,       \* relative_phase: argument b, or None
    arg_t,       \* relative_phase: argument t, or None
    vec,         \* relative_phase: <<a, b>> after _validate_vectors
    peaks,       \* relative_phase: the list peaks, as far as computed
    result,      \* the returned value, or the raised error
    call,        \* which call the caller is making: first, repeat or split
    first,       \* the result of the first call, kept by the caller
    data,        \* ampd_peaks: argument data
    lms,         \* ampd_peaks: the local maxima scalogram
    gamma,       \* ampd_peaks: the row sums
    global_min,  \* ampd_peaks: gamma.argmin()
    stds         \* ampd_peaks: the column standard deviations

vars == <<pc, arg_a, arg_b, arg_t, vec, peaks, result, call, first,
          data, lms, gamma, global_min, stds>>

phase_vars == <<arg_a, arg_b, arg_t, vec, peaks, call, first>>
ampd_vars == <<data, lms, gamma, global_min, stds>>

----------------------------------------------------------------------------
(* one call of relative_phase(a, b, t) *)

\* the signal lengths passed to relative_phase
PhaseLengths == {2, 3, MaxN}

InitPhase ==
    /\ pc = "validate"
    /\ \E N \in PhaseLengths, wa \in Waves, wb \in Waves, c \in 1..MaxScale,
          form \in {"two", "columns", "rows", "flat"} :
          LET x == Pulse(N, wa.P, wa.phi, 1)
              y == Pulse(N, wb.P, wb.phi, c)
          IN \/ /\ form = "two" /\ (c > 1 => wa = wb)
                /\ arg_a = Vec(x) /\ arg_b = Vec(y)
                /\ arg_t \in {None, Ticks(N)}
             \/ /\ form = "columns" /\ (c > 1 => wa = wb)
                /\ arg_a = Columns(x, y) /\ arg_b = None /\ arg_t = None
             \/ /\ form = "rows" /\ wa = wb /\ c = 1
                /\ arg_a = VStack(x, y) /\ arg_b = None /\ arg_t = None
             \/ /\ form = "flat" /\ wa = wb /\ c = 1
                /\ arg_a = Vec(x) /\ arg_b = None /\ arg_t = None
    /\ vec = << >>
    /\ peaks = << >>
    /\ result = None
    /\ call = "first"
    /\ first = None
    /\ data = None /\ lms = << >> /\ gamma = << >> /\ global_min = -1
    /\ stds = << >>

\* line 57: a, b = _validate_vectors(a, b)
Validate ==
    /\ pc = "validate"
    /\ LET v == _validate_vectors(arg_a, arg_b)
       IN IF v.ok
          THEN /\ vec' = v.val
               /\ pc' = "peaks_a"
               /\ result' = result
          ELSE /\ vec' = vec
               /\ pc' = "raised"
               /\ result' = v
    /\ UNCHANGED <<arg_a, arg_b, arg_t, peaks, call, first>>
    /\ UNCHANGED ampd_vars

\* line 61, first element: ampd_peaks(a)
PeaksA ==
    /\ pc = "peaks_a"
    /\ \E r \in ampd_peaks(vec[1]) :
          IF r.ok
          THEN /\ peaks' = <<r.val>>
               /\ pc' = "peaks_b"
               /\ result' = result
          ELSE /\ peaks' = peaks
               /\ pc' = "raised"
               /\ result' = r
    /\ UNCHANGED <<arg_a, arg_b, arg_t, vec, call, first>>
    /\ UNCHANGED ampd_vars

\* line 61, second element: ampd_peaks(b)
PeaksB ==
    /\ pc = "peaks_b"
    /\ \E r \in ampd_peaks(vec[2]) :
          IF r.ok
          THEN /\ peaks' = <<peaks[1], r.val>>
               /\ pc' = "crop"
               /\ result' = result
          ELSE /\ peaks' = peaks
               /\ pc' = "raised"
               /\ result' = r
    /\ UNCHANGED <<arg_a, arg_b, arg_t, vec, call, first>>
    /\ UNCHANGED ampd_vars

\* lines 58-59 and 62-75: the time base, the crop, the phase, the return
Return ==
    /\ pc = "crop"
    /\ LET tt == IF arg_t = None THEN arange(Len(vec[1].data)) ELSE arg_t
       IN result' = Ok(Crop(peaks, tt))
    /\ pc' = "done"
    /\ UNCHANGED <<arg_a, arg_b, arg_t, vec, peaks, call, first>>
    /\ UNCHANGED ampd_vars

Next == Validate \/ PeaksA \/ PeaksB \/ Return

Spec == InitPhase /\ [][Next]_vars

----------------------------------------------------------------------------
(* a caller that calls relative_phase a second time *)

\* the caller keeps the first result and calls again with the same arguments
Repeat ==
    /\ pc = "done" /\ call = "first"
    /\ first' = result
    /\ call' = "repeat"
    /\ pc' = "validate"
    /\ vec' = << >> /\ peaks' = << >> /\ result' = None
    /\ UNCHANGED <<arg_a, arg_b, arg_t>>
    /\ UNCHANGED ampd_vars

\* after relative_phase(a), the caller calls relative_phase(a[:, 0], a[:, 1])
Split ==
    /\ pc = "done" /\ call = "first" /\ arg_b = None
    /\ first' = result
    /\ call' = "split"
    /\ arg_a' = Column(squeeze(arg_a), 0)
    /\ arg_b' = Column(squeeze(arg_a), 1)
    /\ pc' = "validate"
    /\ vec' = << >> /\ peaks' = << >> /\ result' = None
    /\ UNCHANGED arg_t
    /\ UNCHANGED ampd_vars

NextTwice == Validate \/ PeaksA \/ PeaksB \/ Return \/ Repeat \/ Split

SpecTwice == InitPhase /\ [][NextTwice]_vars

----------------------------------------------------------------------------
(* one call of ampd_peaks(data), statement by statement *)

\* the 0/1 signals of length N
Signals(N) == [1..N -> {0, 1}]

\* the shapes under which N samples are passed
Shapes(N) ==
    {<<N>>, <<1, N>>} \cup (IF N % 2 = 0 /\ N > 2 THEN {<<N \div 2, 2>>} ELSE {})

InitPeaks ==
    /\ pc = "scalogram"
    /\ \E N \in 2..MaxN : \E x \in Signals(N), s \in Shapes(N) :
          data = [shape |-> s, data |-> x]
    /\ lms = << >>
    /\ gamma = << >>
    /\ global_min = -1
    /\ stds = << >>
    /\ result = None
    /\ arg_a = None /\ arg_b = None /\ arg_t = None
    /\ vec = << >> /\ peaks = << >> /\ call = "none" /\ first = None

\* line 103: lms = _local_maxima_scalogram(data)
LocalMaximaScalogram ==
    /\ pc = "scalogram"
    /\ LET v == _validate_vector(data)
       IN IF ~v.ok
          THEN /\ result' = v
               /\ pc' = "raised"
               /\ lms' = lms
          ELSE LET d == detrend(v.val)
               IN /\ \E base \in RandomBaseline(Scales(Len(d)), Len(d)) :
                        lms' = SetZero(base, LocalMaxima(d))
                  /\ pc' = "sum"
                  /\ result' = result
    /\ UNCHANGED <<data, gamma, global_min, stds>>
    /\ UNCHANGED phase_vars

\* line 106: gamma = lms.sum(axis=1)
RowWiseSum ==
    /\ pc = "sum"
    /\ gamma' = RowSums(lms)
    /\ pc' = "argmin"
    /\ UNCHANGED <<data, lms, global_min, stds, result>>
    /\ UNCHANGED phase_vars

\* line 109: global_min = gamma.argmin()
GlobalMin ==
    /\ pc = "argmin"
    /\ LET gm == argmin(gamma)
       IN IF gm.ok
          THEN /\ global_min' = gm.val
               /\ pc' = "std"
               /\ result' = result
          ELSE /\ global_min' = global_min
               /\ pc' = "raised"
               /\ result' = gm
    /\ UNCHANGED <<data, lms, gamma, stds>>
    /\ UNCHANGED phase_vars

\* line 112: stds = lms[:global_min + 1].std(axis=0, ddof=1)
ColumnWiseStd ==
    /\ pc = "std"
    /\ stds' = ColumnStds(lms, global_min)
    /\ pc' = "return"
    /\ UNCHANGED <<data, lms, gamma, global_min, result>>
    /\ UNCHANGED phase_vars

\* line 115: return np.nonzero(stds == 0)[0]
ReturnPeaks ==
    /\ pc = "return"
    /\ result' = Ok(ZeroStdIndices(stds))
    /\ pc' = "done"
    /\ UNCHANGED <<data, lms, gamma, global_min, stds>>
    /\ UNCHANGED phase_vars

NextPeaks ==
    LocalMaximaScalogram \/ RowWiseSum \/ GlobalMin \/ ColumnWiseStd \/ ReturnPeaks

SpecPeaks == InitPeaks /\ [][NextPeaks]_vars

----------------------------------------------------------------------------
(* properties of relative_phase *)

Returned == pc = "done" /\ call # "none"

Max0(n) == IF n > 0 THEN n ELSE 0

\* the three returned sequences all have length n
ReturnedLength(n) ==
    /\ Len(result.val.t_a) = n
    /\ Len(result.val.t_b) = n
    /\ Len(result.val.rel_phase) = n

\* the time base in use: t, or the sample indices
TimeBase == IF arg_t = None THEN arange(Len(vec[1].data)) ELSE arg_t

\* C1 as stated: the three returned sequences have the same length,
\* min(peaks in A, peaks in B, peaks in A minus 1), also when A has no peak.
C1_LengthAsStated ==
    Returned =>
        ReturnedLength(Min(<<Len(peaks[1]), Len(peaks[2]), Len(peaks[1]) - 1>>))

\* C1 amended: the three returned sequences have the same length,
\* min(peaks in A, peaks in B, number of periods of A), where the number of
\* periods is the number of peaks in A minus 1, and 0 when A has no peak.
C1_Length ==
    Returned =>
        ReturnedLength(
            Min(<<Len(peaks[1]), Len(peaks[2]), Max0(Len(peaks[1]) - 1)>>))

\* a call has returned a cycle, B having fewer peaks than A has periods
C1_Witness ==
    /\ Returned
    /\ Len(result.val.rel_phase) >= 1
    /\ Len(peaks[2]) < Len(peaks[1]) - 1

\* a call has returned although no peak was found in A
C1_NoPeakInA == Returned /\ Len(peaks[1]) = 0 /\ Len(peaks[2]) > 0

\* C2: for every retained cycle j the phase is
\* 2 pi (peaks_A[j] - peaks_B[j]) / (peaks_A[j+1] - peaks_A[j]), the divisor is a
\* positive integer, the timestamps are t[peaks_A[j]] and t[peaks_B[j]] (the
\* indices themselves without t), and the phase is zero exactly when
\* peaks_A[j] = peaks_B[j].
C2_PhaseFormula ==
    Returned =>
        \A j \in 1..Len(result.val.rel_phase) :
            LET ph == result.val.rel_phase[j]
                pa == peaks[1][j]
                pb == peaks[2][j]
            IN /\ j + 1 <= Len(peaks[1]) /\ j <= Len(peaks[2])
               /\ ph.den = peaks[1][j + 1] - pa
               /\ ph.den > 0
               /\ ph.num = pa - pb
               /\ result.val.t_a[j] = TimeBase[pa + 1]
               /\ result.val.t_b[j] = TimeBase[pb + 1]
               /\ (arg_t = None =>
                     result.val.t_a[j] = pa /\ result.val.t_b[j] = pb)
               /\ (ph.num = 0 <=> pa = pb)

\* a call with an explicit time base has returned two cycles, one of them
\* with a phase other than zero
C2_Witness ==
    /\ Returned
    /\ arg_t # None
    /\ Len(result.val.rel_phase) >= 2
    /\ \E j \in 1..Len(result.val.rel_phase) : result.val.rel_phase[j].num # 0

\* C3: a second call on the same inputs returns what the first call returned.
C3_Idempotent ==
    (pc = "done" /\ call = "repeat") => result = first

\* b is c times a, for a positive integer c
InPhaseInput ==
    \E c \in 1..MaxScale :
        vec[2].data = [j \in 1..Len(vec[1].data) |-> c * vec[1].data[j]]

\* C4: relative_phase(x, c * x) returns phase zero at every cycle and the
\* same timestamps for A and B (both signals having the same detected peaks).
C4_InPhase ==
    (Returned /\ InPhaseInput) =>
        /\ \A j \in 1..Len(result.val.rel_phase) : result.val.rel_phase[j].num = 0
        /\ result.val.t_a = result.val.t_b

\* a and b have period 4 and every maximum of a lies one sample, a quarter
\* period, after a maximum of b
QuarterLagInput ==
    \E phi \in 1..3 :
        /\ vec[1].data = Pulse(Len(vec[1].data), 4, phi, 1)
        /\ vec[2].data = Pulse(Len(vec[1].data), 4, phi - 1, 1)

\* C5: for two signals of the same period P with every maximum of A a quarter
\* period after a maximum of B, every retained cycle has phase pi / 2, the
\* paired peaks being P / 4 samples apart with a constant timestamp offset.
C5_QuarterPhase ==
    (Returned /\ QuarterLagInput) =>
        \A j \in 1..Len(result.val.rel_phase) :
            /\ 4 * result.val.rel_phase[j].num = result.val.rel_phase[j].den
            /\ peaks[1][j] - peaks[2][j] = 1
            /\ result.val.t_a[j] - result.val.t_b[j]
                   = result.val.t_a[1] - result.val.t_b[1]

\* C7: relative_phase(a) with two columns returns what
\* relative_phase(a[:, 0], a[:, 1]) returns.
C7_SplitAgrees ==
    (pc = "done" /\ call = "split") => result = first

----------------------------------------------------------------------------
(* properties of ampd_peaks *)

InAmpd == call = "none"

\* the input keeps more than one axis longer than one after squeezing
NotVector == Len(squeeze(data).shape) > 1

\* C6: ampd_peaks fails exactly when the squeezed input has more than one
\* non-singleton dimension, and then before any matrix is built; every 1-D
\* signal of length N >= 2 is answered with a peak set.
C6_FailsOnlyOnShape ==
    InAmpd =>
        /\ (pc = "raised") => (NotVector /\ lms = << >>)
        /\ (NotVector /\ pc # "scalogram") => pc = "raised"

\* number of zeroed cells of row k of the scalogram
Zeroed(k) == Cardinality({j \in 1..Len(lms[k]) : lms[k][j] = 0})

\* C8: the row picked by the arg-min of the row sums is the row with the most
\* zeroed cells, the first of them on a tie.
C8_MostZeroed ==
    (InAmpd /\ pc \in {"std", "return", "done"}) =>
        /\ \A k \in 1..Len(lms) : Zeroed(k) <= Zeroed(global_min + 1)
        /\ \A k \in 1..global_min : Zeroed(k) < Zeroed(global_min + 1)

\* C9: a zeroed cell (k, i) has both neighbours i - k and i + k inside
\* 0 .. N - 1: no comparison wraps around the end of the signal.
C9_NoWrapAround ==
    InAmpd =>
        \A k \in 1..Len(lms) : \A j \in 1..Len(lms[k]) :
            lms[k][j] = 0 => ((j - 1) - k >= 0 /\ (j - 1) + k <= Len(lms[k]) - 1)

\* the indices whose cells are zero in every row 1 .. lambda
AllZeroColumns ==
    {i \in 0..(Len(lms[1]) - 1) :
        \A k \in 1..(global_min + 1) : lms[k][i + 1] = 0}

\* C10: for every lambda >= 1 ampd_peaks returns exactly the indices whose
\* cells are zero in every row 1 .. lambda, in increasing order.
C10_ExactlyAllZero ==
    (InAmpd /\ pc = "done") =>
        /\ {result.val[j] : j \in 1..Len(result.val)} = AllZeroColumns
        /\ \A j \in 1..(Len(result.val) - 1) : result.val[j] < result.val[j + 1]

====
